---- MODULE Spec2Model ----
(***************************************************************************)
(* Verification model of the availability / booking-consistency engine of  *)
(* the Hotel-Booking-System backend (FastAPI + SQLModel).                  *)
(*                                                                         *)
(* The database is the state: the bookings table, the inventories table    *)
(* and the daily_prices table.  Every HTTP handler is one action.  The two  *)
(* booking-creation handlers also appear split at the point where another  *)
(* request can interleave: between the SELECT that looks for conflicting   *)
(* bookings and the INSERT done by session.commit().  No handler takes a   *)
(* lock or runs at serializable isolation.                                 *)
(*                                                                         *)
(* Dates are small integers (days).  Booking statuses are the union of     *)
(* the vocabularies of app/models/booking.py and app/utils/enums.py.       *)
(***************************************************************************)
EXTENDS Integers, Sequences, FiniteSets, TLC

(* ------------------------------ bounds --------------------------------- *)
NumRooms == 2
MaxNight == 1
MaxBookings == 2
NumWorkers == 2
MaxTotalRooms == 1

(* -------------------------- program constants -------------------------- *)
NumRoomTypes == 2
Today == 0
Capacity == 2
BasePrice == 2
OverridePrice == BasePrice + 1
PricePerNight == 1
RoomPrices == {PricePerNight, PricePerNight + 1}

Rooms == 1..NumRooms
RoomIds == 0..NumRooms
RoomTypes == 1..NumRoomTypes
RatePlans == 1..NumRoomTypes
(* the nights a stay can occupy, and the dates a check_in or check_out can be *)
Nights == 0..MaxNight
Dates == 0..(MaxNight + 1)
GuestDates == (Today - 1)..(MaxNight + 1)
Workers == 1..NumWorkers

RoomTypeOf(room_id) == ((room_id - 1) % NumRoomTypes) + 1

BookingStatus ==
    {"PENDING", "HOLD", "CONFIRMED", "CANCELLED", "EXPIRED", "COMPLETED", "NO_SHOW"}

Unset == "unset"
UnsetDate == Today - 2
Idle == [kind |-> "idle", room_id |-> 0, check_in |-> 0, check_out |-> 0]
NoRow == [present |-> FALSE, total_rooms |-> 0, booked_rooms |-> 0,
          closed_for_sale |-> FALSE]
NoPrice == 0
NoResp == << >>
None == << >>

VARIABLES
    bookings,       \* the bookings table, in insertion order
    inflight,       \* per worker: the creation request between its SELECT and its INSERT
    inventory,      \* the inventories table: inventory[room_type_id][night]
    daily_price,    \* the daily_prices table: daily_price[rate_plan_id][night], 0 = no row
    quote_req,      \* the QuoteRequest being served
    quote_resp,     \* the QuoteResponse (or HTTP error) returned for quote_req
    probe_req,      \* the (room_id, check_in, check_out) whose availability is asked
    probe,          \* the answers of the availability checks for probe_req
    rooms,          \* the rooms table: rooms[room_id]
    cache,          \* the value stored under the key "rooms:all", None when absent
    listing,        \* the list_rooms request between its SELECT and its set_cache
    list_resp,      \* the last response of list_rooms
    outbox,         \* the bookings a send_booking_approved task was queued for
    reserve_resp    \* the last response of reserve_room_inventory

vars == <<bookings, inflight, inventory, daily_price, quote_req, quote_resp,
          probe_req, probe, rooms, cache, listing, list_resp, outbox,
          reserve_resp>>
quoteVars == <<quote_req, quote_resp>>
probeVars == <<probe_req, probe>>
cacheVars == <<cache, listing, list_resp>>
restVars == <<rooms, cacheVars, outbox, reserve_resp>>

(* a new Booking row; total_amount defaults to 0, cancellation_reason to None *)
Booking(room_id, check_in, check_out, status) ==
    [room_id |-> room_id, check_in |-> check_in, check_out |-> check_out,
     status |-> status, total_amount |-> 0, cancellation_reason |-> None]

(* a row of the rooms table; present = FALSE stands for a row not yet inserted *)
Room(present, is_active, price_per_night) ==
    [present |-> present, is_active |-> is_active,
     price_per_night |-> price_per_night]

(* ----------------------- app/services/booking_service.py --------------- *)
(* room_available looking at the night of arrival only *)
room_available_first_night(bks, room_id, check_in, check_out) ==
    ~ \E i \in DOMAIN bks :
        /\ bks[i].room_id = room_id
        /\ bks[i].status \in {"CONFIRMED", "COMPLETED"}
        /\ bks[i].check_in <= check_in
        /\ bks[i].check_out >= check_in

room_available(bks, room_id, check_in, check_out) ==
    ~ \E i \in DOMAIN bks :
        /\ bks[i].room_id = room_id
        /\ bks[i].status \in {"CONFIRMED", "COMPLETED"}
        /\ bks[i].check_in <= check_out
        /\ bks[i].check_out >= check_in

(* compute_total raises ValueError unless the stay has at least one night   *)
(* (nights counted as at bookings.py:100, (check_out - check_in).days)      *)
ComputeTotalOk(check_in, check_out) == ~ (check_out - check_in <= 0)

(* compute_total past that check: the nights times the room's current price *)
compute_total(room, check_in, check_out) ==
    (check_out - check_in) * room.price_per_night

(* PricingService.calculate_room_pricing with no seasonal adjustment in    *)
(* force: the base price for every night of the stay                       *)
calculate_room_pricing(base_price_per_night, nights) ==
    nights * base_price_per_night

(* the conflict query of create_guest_booking *)
conflicting_bookings(bks, room_id, check_in, check_out) ==
    {i \in DOMAIN bks :
        /\ bks[i].room_id = room_id
        /\ bks[i].status \in {"CONFIRMED"}
        /\ bks[i].check_in < check_out
        /\ bks[i].check_out > check_in}

(* ------------------------------ Init ----------------------------------- *)
EmptyLedger == [rt \in RoomTypes |-> [d \in Nights |-> NoRow]]
NoOverrides == [rp \in RatePlans |-> [d \in Nights |-> NoPrice]]
NoRequest == << >>

AllRoomsActive == [r \in Rooms |-> Room(TRUE, TRUE, PricePerNight)]

(* every room on sale at the seeded price, nothing cached, queued or answered *)
NoRoomTraffic ==
    /\ rooms = AllRoomsActive
    /\ cache = None
    /\ listing = None
    /\ list_resp = NoResp
    /\ outbox = {}
    /\ reserve_resp = NoResp

Init ==
    /\ bookings = << >>
    /\ inflight = [w \in Workers |-> Idle]
    /\ inventory = EmptyLedger
    /\ daily_price = NoOverrides
    /\ quote_req = NoRequest
    /\ quote_resp = NoResp
    /\ probe_req = NoRequest
    /\ probe = NoResp
    /\ NoRoomTraffic

(* --------------------- scripts/add_sample_rooms.py --------------------- *)
ActiveRoomsOfType(rt) == {r \in Rooms : RoomTypeOf(r) = rt}

(* SeedRow with the two counts exchanged *)
SeedRowSwapped(rt) ==
    [present |-> TRUE, total_rooms |-> 0,
     booked_rooms |-> Cardinality(ActiveRoomsOfType(rt)), closed_for_sale |-> FALSE]

SeedRow(rt) ==
    [present |-> TRUE, total_rooms |-> Cardinality(ActiveRoomsOfType(rt)),
     booked_rooms |-> 0, closed_for_sale |-> FALSE]

(* the inventory loop of the seeding script: one row per room type and day, *)
(* created only where none exists                                           *)
SeedInventory ==
    /\ \E rt \in RoomTypes, d \in Nights : ~ inventory[rt][d].present
    /\ inventory' = [rt \in RoomTypes |-> [d \in Nights |->
                        IF ~ inventory[rt][d].present THEN SeedRow(rt)
                        ELSE inventory[rt][d]]]
    /\ UNCHANGED <<bookings, inflight, daily_price, quoteVars, probeVars, restVars>>

(* ------------------------ app/routers/bookings.py ---------------------- *)
Request(kind, room_id, check_in, check_out) ==
    [kind |-> kind, room_id |-> room_id, check_in |-> check_in,
     check_out |-> check_out]

(* session.get(Room, room_id) followed by "if not room or not room.is_active" *)
RoomOnSale(room_id) ==
    /\ room_id \in Rooms
    /\ rooms[room_id].present
    /\ rooms[room_id].is_active

(* the row create_booking inserts *)
UserBooking(room_id, check_in, check_out) ==
    [Booking(room_id, check_in, check_out, "CONFIRMED") EXCEPT
        !.total_amount = compute_total(rooms[room_id], check_in, check_out)]

(* the row create_guest_booking inserts *)
GuestBooking(room_id, check_in, check_out) ==
    [Booking(room_id, check_in, check_out, "PENDING") EXCEPT
        !.total_amount = calculate_room_pricing(rooms[room_id].price_per_night,
                                                check_out - check_in)]

(* create_booking up to and including compute_total: everything that can   *)
(* raise before the INSERT                                                  *)
CreateBookingAccepts(bks, room_id, check_in, check_out) ==
    /\ RoomOnSale(room_id)
    /\ room_available(bks, room_id, check_in, check_out)
    /\ ComputeTotalOk(check_in, check_out)

(* create_guest_booking up to the pricing: validation and the conflict query *)
CreateGuestBookingAccepts(bks, room_id, check_in, check_out, guests) ==
    /\ ~ (check_in >= check_out)
    /\ ~ (check_in < Today)
    /\ RoomOnSale(room_id)
    /\ ~ (guests > Capacity)
    /\ conflicting_bookings(bks, room_id, check_in, check_out) = {}

(* create_booking served alone *)
CreateBooking(room_id, check_in, check_out) ==
    /\ Len(bookings) < MaxBookings
    /\ CreateBookingAccepts(bookings, room_id, check_in, check_out)
    /\ bookings' = Append(bookings, UserBooking(room_id, check_in, check_out))
    /\ UNCHANGED <<inflight, inventory, daily_price, quoteVars, probeVars, restVars>>

(* create_guest_booking served alone *)
CreateGuestBooking(room_id, check_in, check_out, guests) ==
    /\ Len(bookings) < MaxBookings
    /\ CreateGuestBookingAccepts(bookings, room_id, check_in, check_out, guests)
    /\ bookings' = Append(bookings, GuestBooking(room_id, check_in, check_out))
    /\ UNCHANGED <<inflight, inventory, daily_price, quoteVars, probeVars, restVars>>

(* create_booking, first half: the reads *)
CreateBookingCheck(w, room_id, check_in, check_out) ==
    /\ inflight[w] = Idle
    /\ CreateBookingAccepts(bookings, room_id, check_in, check_out)
    /\ inflight' = [inflight EXCEPT ![w] = Request("user", room_id, check_in, check_out)]
    /\ UNCHANGED <<bookings, inventory, daily_price, quoteVars, probeVars, restVars>>

(* create_booking, second half: session.add / session.commit *)
CreateBookingCommit(w) ==
    /\ inflight[w].kind = "user"
    /\ Len(bookings) < MaxBookings
    /\ bookings' = Append(bookings,
            UserBooking(inflight[w].room_id, inflight[w].check_in,
                        inflight[w].check_out))
    /\ inflight' = [inflight EXCEPT ![w] = Idle]
    /\ UNCHANGED <<inventory, daily_price, quoteVars, probeVars, restVars>>

(* create_guest_booking, first half: the reads *)
CreateGuestBookingCheck(w, room_id, check_in, check_out, guests) ==
    /\ inflight[w] = Idle
    /\ CreateGuestBookingAccepts(bookings, room_id, check_in, check_out, guests)
    /\ inflight' = [inflight EXCEPT ![w] = Request("guest", room_id, check_in, check_out)]
    /\ UNCHANGED <<bookings, inventory, daily_price, quoteVars, probeVars, restVars>>

(* create_guest_booking, second half: session.add / session.commit *)
CreateGuestBookingCommit(w) ==
    /\ inflight[w].kind = "guest"
    /\ Len(bookings) < MaxBookings
    /\ bookings' = Append(bookings,
            GuestBooking(inflight[w].room_id, inflight[w].check_in,
                         inflight[w].check_out))
    /\ inflight' = [inflight EXCEPT ![w] = Idle]
    /\ UNCHANGED <<inventory, daily_price, quoteVars, probeVars, restVars>>

(* the approval e-mail is queued as soon as the status is assigned *)
approval_sent(booking, status) ==
    booking.status = "PENDING" /\ status = "CONFIRMED"

(* update_booking: PATCH /bookings/{id}.  The status is assigned first; the *)
(* availability query then autoflushes it, so it sees this booking with its *)
(* new status and its old dates.  A raise leaves the row as it was.         *)
UpdateBooking(i, status, check_in, check_out) ==
    /\ i \in DOMAIN bookings
    /\ status \in {Unset, "PENDING", "CONFIRMED", "CANCELLED", "COMPLETED"}
    /\ LET booking == bookings[i]
           flushed == IF status = Unset THEN booking
                      ELSE [booking EXCEPT !.status = status]
           new_check_in == IF check_in = UnsetDate THEN booking.check_in ELSE check_in
           new_check_out == IF check_out = UnsetDate THEN booking.check_out ELSE check_out
           bks == [bookings EXCEPT ![i] = flushed]
       IN  IF new_check_in # booking.check_in \/ new_check_out # booking.check_out
           THEN /\ ~ (new_check_in >= new_check_out)
                /\ room_available(bks, booking.room_id, new_check_in, new_check_out)
                /\ bookings' = [bookings EXCEPT ![i] =
                        [flushed EXCEPT
                            !.check_in = new_check_in,
                            !.check_out = new_check_out,
                            !.total_amount = compute_total(rooms[booking.room_id],
                                                 new_check_in, new_check_out)]]
           ELSE bookings' = bks
    /\ outbox' = IF approval_sent(bookings[i], status) THEN outbox \cup {i}
                 ELSE outbox
    /\ UNCHANGED <<inflight, inventory, daily_price, quoteVars, probeVars,
                   rooms, cacheVars, reserve_resp>>

(* update_booking answering 400: an unknown status is refused before       *)
(* anything is assigned; a bad date change is refused after the status was *)
(* assigned and the approval e-mail queued.  Nothing is committed.         *)
UpdateBookingRejected(i, status, check_in, check_out) ==
    /\ i \in DOMAIN bookings
    /\ IF status \notin {Unset, "PENDING", "CONFIRMED", "CANCELLED", "COMPLETED"}
       THEN UNCHANGED outbox
       ELSE LET booking == bookings[i]
                flushed == IF status = Unset THEN booking
                           ELSE [booking EXCEPT !.status = status]
                new_check_in == IF check_in = UnsetDate THEN booking.check_in
                                ELSE check_in
                new_check_out == IF check_out = UnsetDate THEN booking.check_out
                                 ELSE check_out
                bks == [bookings EXCEPT ![i] = flushed]
            IN  /\ new_check_in # booking.check_in \/ new_check_out # booking.check_out
                /\ \/ new_check_in >= new_check_out
                   \/ ~ room_available(bks, booking.room_id, new_check_in, new_check_out)
                /\ outbox' = IF approval_sent(booking, status) THEN outbox \cup {i}
                             ELSE outbox
    /\ UNCHANGED <<bookings, inflight, inventory, daily_price, quoteVars, probeVars,
                   rooms, cacheVars, reserve_resp>>

(* cancel_booking: DELETE /bookings/{id} *)
CancelBooking(i) ==
    /\ i \in DOMAIN bookings
    /\ bookings' = [bookings EXCEPT ![i].status = "CANCELLED"]
    /\ UNCHANGED <<inflight, inventory, daily_price, quoteVars, probeVars, restVars>>

(* -------------------------- app/routers/staff.py ----------------------- *)
(* modify_booking: setattr of every field the payload carries *)
ModifyBooking(i, status, check_in, check_out) ==
    /\ i \in DOMAIN bookings
    /\ bookings' = [bookings EXCEPT ![i] =
            [room_id |-> @.room_id,
             check_in |-> IF check_in = UnsetDate THEN @.check_in ELSE check_in,
             check_out |-> IF check_out = UnsetDate THEN @.check_out ELSE check_out,
             status |-> IF status = Unset THEN @.status ELSE status,
             total_amount |-> @.total_amount,
             cancellation_reason |-> @.cancellation_reason]]
    /\ UNCHANGED <<inflight, inventory, daily_price, quoteVars, probeVars, restVars>>

CheckInGuest(i) ==
    /\ i \in DOMAIN bookings
    /\ ~ (bookings[i].status # "CONFIRMED")
    /\ bookings' = [bookings EXCEPT ![i].status = "COMPLETED"]
    /\ UNCHANGED <<inflight, inventory, daily_price, quoteVars, probeVars, restVars>>

CheckOutGuest(i) ==
    /\ i \in DOMAIN bookings
    /\ bookings' = [bookings EXCEPT ![i].status = "COMPLETED"]
    /\ UNCHANGED <<inflight, inventory, daily_price, quoteVars, probeVars, restVars>>

(* -------------------------- app/routers/rooms.py ----------------------- *)
(* a query parameter left out of the request.  capacity = 0 behaves as a   *)
(* capacity left out (any([0]) is False and every room has capacity >= 0)  *)
NoFilterValue == 0
ListFilter(capacity, room_type_id) ==
    [capacity |-> capacity, room_type_id |-> room_type_id]
NoFilter == ListFilter(NoFilterValue, NoFilterValue)
Filters ==
    {ListFilter(c, rt) : c \in {NoFilterValue, Capacity, Capacity + 1},
                         rt \in {NoFilterValue} \cup RoomTypes}

(* not any([min_price, max_price, capacity, view, room_type]) *)
cache_applies(f) == ~ (f.capacity # NoFilterValue)

(* the SELECT of list_rooms: the active rooms that pass every where clause *)
RoomOut(rms, r) == [id |-> r, price_per_night |-> rms[r].price_per_night]
query_rooms(rms, f) ==
    {RoomOut(rms, r) : r \in {x \in Rooms :
        /\ rms[x].present
        /\ rms[x].is_active
        /\ (f.capacity # NoFilterValue => Capacity >= f.capacity)
        /\ (f.room_type_id # NoFilterValue => RoomTypeOf(x) = f.room_type_id)}}

(* json.dumps([r.dict() for r in rooms]): every Room row carries a UUID id *)
(* and a datetime, which the json module refuses with a TypeError          *)
json_dumps_ok(rows) == rows = {}

ListResponse(f, status_code, rows) ==
    [filter |-> f, status_code |-> status_code, rooms |-> rows]

(* list_rooms after its SELECT: set_cache when the cache applies, then the *)
(* response                                                                *)
store_and_return(cch, f, rows) ==
    IF cache_applies(f)
    THEN IF json_dumps_ok(rows)
         THEN [resp |-> ListResponse(f, 200, rows), cache |-> <<rows>>]
         ELSE [resp |-> ListResponse(f, 500, {}), cache |-> cch]
    ELSE [resp |-> ListResponse(f, 200, rows), cache |-> cch]

list_rooms(rms, cch, f) ==
    IF cache_applies(f) /\ cch # None
    THEN [resp |-> ListResponse(f, 200, cch[1]), cache |-> cch]
    ELSE store_and_return(cch, f, query_rooms(rms, f))

(* list_rooms served alone *)
ListRooms(f) ==
    /\ listing = None
    /\ LET out == list_rooms(rooms, cache, f)
       IN  /\ list_resp' = <<out.resp>>
           /\ cache' = out.cache
    /\ UNCHANGED <<bookings, inflight, inventory, daily_price, quoteVars, probeVars,
                   rooms, listing, outbox, reserve_resp>>

(* list_rooms, first half: get_cache and, on a miss, the SELECT *)
ListRoomsRead(f) ==
    /\ listing = None
    /\ IF cache_applies(f) /\ cache # None
       THEN /\ list_resp' = <<ListResponse(f, 200, cache[1])>>
            /\ UNCHANGED listing
       ELSE /\ listing' = <<[filter |-> f, rooms |-> query_rooms(rooms, f)]>>
            /\ UNCHANGED list_resp
    /\ UNCHANGED <<bookings, inflight, inventory, daily_price, quoteVars, probeVars,
                   rooms, cache, outbox, reserve_resp>>

(* list_rooms, second half: set_cache and the response *)
ListRoomsStore ==
    /\ listing # None
    /\ LET out == store_and_return(cache, listing[1].filter, listing[1].rooms)
       IN  /\ list_resp' = <<out.resp>>
           /\ cache' = out.cache
    /\ listing' = None
    /\ UNCHANGED <<bookings, inflight, inventory, daily_price, quoteVars, probeVars,
                   rooms, outbox, reserve_resp>>

(* set_cache(..., ttl=60): the entry disappears once its 60 seconds are over *)
CacheExpires ==
    /\ cache # None
    /\ cache' = None
    /\ UNCHANGED <<bookings, inflight, inventory, daily_price, quoteVars, probeVars,
                   rooms, listing, list_resp, outbox, reserve_resp>>

(* create_room: INSERT, commit, delete_cache *)
CreateRoom(r, price_per_night) ==
    /\ r \in Rooms
    /\ ~ rooms[r].present
    /\ rooms' = [rooms EXCEPT ![r] = Room(TRUE, TRUE, price_per_night)]
    /\ cache' = None
    /\ UNCHANGED <<bookings, inflight, inventory, daily_price, quoteVars, probeVars,
                   listing, list_resp, outbox, reserve_resp>>

(* the payloads of update_room: the fields the request sets *)
RoomUpdates ==
    {[price_per_night |-> p] : p \in RoomPrices}
        \cup {[is_active |-> a] : a \in BOOLEAN}
        \cup {[price_per_night |-> p, is_active |-> a] : p \in RoomPrices, a \in BOOLEAN}

(* the setattr loop of update_room *)
set_fields(room, data) ==
    [field \in DOMAIN room |->
        IF field \in DOMAIN data THEN data[field] ELSE room[field]]

(* update_room that also re-prices the bookings of the room *)
UpdateRoomReprices(r, data) ==
    /\ r \in Rooms
    /\ rooms[r].present
    /\ rooms' = [rooms EXCEPT ![r] = set_fields(@, data)]
    /\ bookings' = [i \in DOMAIN bookings |->
            IF bookings[i].room_id = r
            THEN [bookings[i] EXCEPT !.total_amount =
                    compute_total(rooms'[r], bookings[i].check_in, bookings[i].check_out)]
            ELSE bookings[i]]
    /\ cache' = None
    /\ UNCHANGED <<inflight, inventory, daily_price, quoteVars, probeVars,
                   listing, list_resp, outbox, reserve_resp>>

(* update_room: setattr of every field of the payload, commit, delete_cache *)
UpdateRoom(r, data) ==
    /\ r \in Rooms
    /\ rooms[r].present
    /\ rooms' = [rooms EXCEPT ![r] = set_fields(@, data)]
    /\ cache' = None
    /\ UNCHANGED <<bookings, inflight, inventory, daily_price, quoteVars, probeVars,
                   listing, list_resp, outbox, reserve_resp>>

(* delete_room: the soft delete, commit, delete_cache *)
DeleteRoom(r) ==
    /\ r \in Rooms
    /\ rooms[r].present
    /\ rooms' = [rooms EXCEPT ![r].is_active = FALSE]
    /\ cache' = None
    /\ UNCHANGED <<bookings, inflight, inventory, daily_price, quoteVars, probeVars,
                   listing, list_resp, outbox, reserve_resp>>

(* ------------------------ app/routers/inventory.py --------------------- *)
(* the minutes a reservation is announced to last, and the minutes between *)
(* the call and the expires_at it returns (datetime.utcnow() itself)       *)
HoldMinutes == 15
ExpiresAfter == 0

(* check_room_inventory: the date checks, the room lookup, then the loop   *)
(* over the days.  Its first query names Inventory.room_id and             *)
(* Inventory.is_active, attributes the Inventory model does not have, so   *)
(* the first day of any valid range raises AttributeError (a 500)          *)
check_room_inventory(room_id, check_in, check_out) ==
    IF check_in >= check_out THEN [status_code |-> 400, is_available |-> FALSE]
    ELSE IF check_in < Today THEN [status_code |-> 400, is_available |-> FALSE]
    ELSE IF ~ RoomOnSale(room_id) THEN [status_code |-> 404, is_available |-> FALSE]
    ELSE [status_code |-> 500, is_available |-> FALSE]

ReserveResponse(room_id, check_in, check_out, status_code, expires_after) ==
    [room_id |-> room_id, check_in |-> check_in, check_out |-> check_out,
     status_code |-> status_code, expires_after |-> expires_after]

(* reserve_room_inventory: the availability check, 409 when it says no,    *)
(* otherwise a confirmation; no table is written                           *)
ReserveRoomInventory(room_id, check_in, check_out) ==
    /\ LET availability == check_room_inventory(room_id, check_in, check_out)
       IN  reserve_resp' =
             IF availability.status_code # 200
             THEN <<ReserveResponse(room_id, check_in, check_out,
                                    availability.status_code, 0)>>
             ELSE IF ~ availability.is_available
             THEN <<ReserveResponse(room_id, check_in, check_out, 409, 0)>>
             ELSE <<ReserveResponse(room_id, check_in, check_out, 200, ExpiresAfter)>>
    /\ UNCHANGED <<bookings, inflight, inventory, daily_price, quoteVars, probeVars,
                   rooms, cacheVars, outbox>>

(* ----------------------- app/routers/availability.py ------------------- *)
(* the catalogue the quote validates against: property 1 with every room   *)
(* type and one rate plan per room type, and property 2 with none          *)
PropertyIds == {1, 2}
RoomTypeProperty(rt) == 1
RatePlanProperty(rp) == 1
RatePlanRoomType(rp) == rp

QuoteRequest(property_id, room_type_id, rate_plan_id, check_in, check_out, num_rooms) ==
    [property_id |-> property_id, room_type_id |-> room_type_id,
     rate_plan_id |-> rate_plan_id, check_in |-> check_in,
     check_out |-> check_out, num_rooms |-> num_rooms]

(* db_reads is not part of the response body: it counts the database      *)
(* queries the handler had issued when it returned or raised              *)
QuoteResponse(available, remaining_rooms, total_price, db_reads) ==
    [code |-> 200, available |-> available, remaining_rooms |-> remaining_rooms,
     total_price |-> total_price, db_reads |-> db_reads]

HTTPException(status_code, db_reads) ==
    [code |-> status_code, available |-> FALSE, remaining_rooms |-> 0,
     total_price |-> 0, db_reads |-> db_reads]

(* min_available_loop with the comparison lost: the last night read wins *)
RECURSIVE min_available_loop_last(_, _, _, _)
min_available_loop_last(rows, day, check_out, min_available) ==
    IF day >= check_out THEN min_available
    ELSE LET inv == rows[day] IN
         IF inv.present /\ inv.closed_for_sale THEN <<0>>
         ELSE LET available == IF inv.present
                               THEN inv.total_rooms - inv.booked_rooms
                               ELSE 0
              IN  min_available_loop_last(rows, day + 1, check_out, <<available>>)

(* min_available_loop without the closed_for_sale branch *)
RECURSIVE min_available_loop_sells_closed(_, _, _, _)
min_available_loop_sells_closed(rows, day, check_out, min_available) ==
    IF day >= check_out THEN min_available
    ELSE LET inv == rows[day]
             available == IF inv.present
                          THEN inv.total_rooms - inv.booked_rooms
                          ELSE 0
         IN  min_available_loop_sells_closed(rows, day + 1, check_out,
                IF min_available = None \/ available < min_available[1]
                THEN <<available>> ELSE min_available)

(* the loop over the nights that determines min_available; None is << >> *)
RECURSIVE min_available_loop(_, _, _, _)
min_available_loop(rows, day, check_out, min_available) ==
    IF day >= check_out THEN min_available
    ELSE LET inv == rows[day] IN
         IF inv.present /\ inv.closed_for_sale THEN <<0>>
         ELSE LET available == IF inv.present
                               THEN inv.total_rooms - inv.booked_rooms
                               ELSE 0
              IN  min_available_loop(rows, day + 1, check_out,
                     IF min_available = None \/ available < min_available[1]
                     THEN <<available>> ELSE min_available)

(* the number of Inventory queries the first loop issues: one per night up *)
(* to and including the first closed_for_sale row                          *)
RECURSIVE inventory_reads(_, _, _)
inventory_reads(rows, day, check_out) ==
    IF day >= check_out THEN 0
    ELSE IF rows[day].present /\ rows[day].closed_for_sale THEN 1
    ELSE 1 + inventory_reads(rows, day + 1, check_out)

(* total_price_loop without the DailyPrice lookup: every night at base_price *)
RECURSIVE total_price_loop_base_price(_, _, _, _, _)
total_price_loop_base_price(prices, day, check_out, num_rooms, total_price) ==
    IF day >= check_out THEN total_price
    ELSE total_price_loop_base_price(prices, day + 1, check_out, num_rooms,
                                     total_price + BasePrice * num_rooms)

(* the loop over the nights that sums the price *)
RECURSIVE total_price_loop(_, _, _, _, _)
total_price_loop(prices, day, check_out, num_rooms, total_price) ==
    IF day >= check_out THEN total_price
    ELSE LET nightly_price == IF prices[day] # NoPrice THEN prices[day] ELSE BasePrice
         IN  total_price_loop(prices, day + 1, check_out, num_rooms,
                              total_price + nightly_price * num_rooms)

(* quote_availability without the comparison of the rate plan's room type *)
quote_availability_any_rate_plan(ledger, price_table, payload) ==
    IF payload.property_id \notin PropertyIds THEN HTTPException(404, 1)
    ELSE IF \/ payload.room_type_id \notin RoomTypes
            \/ RoomTypeProperty(payload.room_type_id) # payload.property_id
         THEN HTTPException(404, 2)
    ELSE IF \/ payload.rate_plan_id \notin RatePlans
            \/ RatePlanProperty(payload.rate_plan_id) # payload.property_id
         THEN HTTPException(404, 3)
    ELSE IF payload.check_out <= payload.check_in THEN HTTPException(400, 3)
    ELSE LET nights == payload.check_out - payload.check_in
             min_available == min_available_loop(ledger[payload.room_type_id],
                                  payload.check_in, payload.check_out, None)
             available_rooms == IF min_available # None THEN min_available[1] ELSE 0
             reads == 3 + inventory_reads(ledger[payload.room_type_id],
                                          payload.check_in, payload.check_out)
         IN  IF available_rooms < payload.num_rooms
             THEN QuoteResponse(FALSE, available_rooms, 0, reads)
             ELSE QuoteResponse(TRUE, available_rooms - payload.num_rooms,
                     total_price_loop(price_table[payload.rate_plan_id],
                         payload.check_in, payload.check_out, payload.num_rooms, 0),
                     reads + nights)

quote_availability(ledger, price_table, payload) ==
    IF payload.property_id \notin PropertyIds THEN HTTPException(404, 1)
    ELSE IF \/ payload.room_type_id \notin RoomTypes
            \/ RoomTypeProperty(payload.room_type_id) # payload.property_id
         THEN HTTPException(404, 2)
    ELSE IF \/ payload.rate_plan_id \notin RatePlans
            \/ RatePlanProperty(payload.rate_plan_id) # payload.property_id
            \/ RatePlanRoomType(payload.rate_plan_id) # payload.room_type_id
         THEN HTTPException(404, 3)
    ELSE IF payload.check_out <= payload.check_in THEN HTTPException(400, 3)
    ELSE LET nights == payload.check_out - payload.check_in
             min_available == min_available_loop(ledger[payload.room_type_id],
                                  payload.check_in, payload.check_out, None)
             available_rooms == IF min_available # None THEN min_available[1] ELSE 0
             reads == 3 + inventory_reads(ledger[payload.room_type_id],
                                          payload.check_in, payload.check_out)
         IN  IF available_rooms < payload.num_rooms
             THEN QuoteResponse(FALSE, available_rooms, 0, reads)
             ELSE QuoteResponse(TRUE, available_rooms - payload.num_rooms,
                     total_price_loop(price_table[payload.rate_plan_id],
                         payload.check_in, payload.check_out, payload.num_rooms, 0),
                     reads + nights)

(* a quote that also books what it quotes: an available answer adds        *)
(* num_rooms to booked_rooms of every night of the stay                    *)
QuoteAvailabilityReserves ==
    /\ quote_req # NoRequest
    /\ LET q == quote_req[1]
           r == quote_availability(inventory, daily_price, q)
       IN  /\ quote_resp' = <<r>>
           /\ inventory' =
                IF r.code = 200 /\ r.available
                THEN [inventory EXCEPT ![q.room_type_id] =
                        [d \in Nights |->
                            IF q.check_in <= d /\ d < q.check_out
                            THEN [@[d] EXCEPT !.booked_rooms = @ + q.num_rooms]
                            ELSE @[d]]]
                ELSE inventory
    /\ UNCHANGED <<bookings, inflight, daily_price, quote_req, probeVars, restVars>>

(* POST /availability/quote *)
QuoteAvailability ==
    /\ quote_req # NoRequest
    /\ quote_resp' = <<quote_availability(inventory, daily_price, quote_req[1])>>
    /\ UNCHANGED <<bookings, inflight, inventory, daily_price, quote_req, probeVars, restVars>>

(* the conflict query of check_room_availability (GET /rooms/{id}/availability) *)
preview_conflicts(bks, room_id, check_in, check_out) ==
    {i \in DOMAIN bks :
        /\ bks[i].room_id = room_id
        /\ bks[i].status \in {"CONFIRMED"}
        /\ bks[i].check_in < check_out
        /\ bks[i].check_out > check_in}

(* ------------------- the availability checks, side by side -------------- *)
(* what room_available, the conflict query of create_guest_booking and the *)
(* preview endpoint answer for the same room and range over the same       *)
(* bookings table                                                          *)
ProbeRoomAvailability ==
    /\ probe_req # NoRequest
    /\ LET q == probe_req[1] IN
       probe' = <<[room_available |->
                       room_available(bookings, q.room_id, q.check_in, q.check_out),
                   guest_free |->
                       conflicting_bookings(bookings, q.room_id, q.check_in,
                                            q.check_out) = {},
                   preview_free |->
                       preview_conflicts(bookings, q.room_id, q.check_in,
                                         q.check_out) = {}]>>
    /\ UNCHANGED <<bookings, inflight, inventory, daily_price, quoteVars, probe_req, restVars>>

(* --------------------------- specifications ---------------------------- *)
BookingIds == 1..MaxBookings
StatusOrUnset == BookingStatus \cup {Unset}
(* a payload carries both dates or neither *)
DateChange == {<<UnsetDate, UnsetDate>>} \cup (Dates \X Dates)
GuestCounts == {Capacity, Capacity + 1}

(* the handlers of routers/bookings.py and the staff check-in / check-out, *)
(* each served alone                                                       *)
Next ==
    \/ \E r \in RoomIds, ci \in Dates, co \in Dates : CreateBooking(r, ci, co)
    \/ \E r \in RoomIds, ci \in GuestDates, co \in GuestDates, g \in GuestCounts :
            CreateGuestBooking(r, ci, co, g)
    \/ \E i \in BookingIds, st \in StatusOrUnset, dc \in DateChange :
            UpdateBooking(i, st, dc[1], dc[2])
    \/ \E i \in BookingIds, st \in StatusOrUnset, dc \in DateChange :
            UpdateBookingRejected(i, st, dc[1], dc[2])
    \/ \E i \in BookingIds : CancelBooking(i)
    \/ \E i \in BookingIds : CheckInGuest(i)
    \/ \E i \in BookingIds : CheckOutGuest(i)

Spec == Init /\ [][Next]_vars

(* the room that is booked, moved, edited and re-priced *)
SnapshotRoom == 1

(* bookings created by the two creation handlers and then edited by staff *)
NextStaff ==
    \/ \E ci \in Dates, co \in Dates : CreateBooking(SnapshotRoom, ci, co)
    \/ \E ci \in Dates, co \in Dates :
            CreateGuestBooking(SnapshotRoom, ci, co, Capacity)
    \/ \E i \in BookingIds, st \in StatusOrUnset, dc \in DateChange :
            ModifyBooking(i, st, dc[1], dc[2])
    \/ \E i \in BookingIds : CheckInGuest(i)
    \/ \E i \in BookingIds : CheckOutGuest(i)

SpecStaff == Init /\ [][NextStaff]_vars

(* concurrent creation requests over a seeded ledger *)
NextCommit ==
    \/ SeedInventory
    \/ \E w \in Workers, r \in RoomIds, ci \in Dates, co \in Dates :
            CreateBookingCheck(w, r, ci, co)
    \/ \E w \in Workers : CreateBookingCommit(w)
    \/ \E w \in Workers, r \in RoomIds, ci \in GuestDates, co \in GuestDates,
          g \in GuestCounts : CreateGuestBookingCheck(w, r, ci, co, g)
    \/ \E w \in Workers : CreateGuestBookingCommit(w)

SpecCommit == Init /\ [][NextCommit]_vars

(* guest bookings from request to the end of their life: a request that    *)
(* passed its checks is committed (the server finishes the requests it     *)
(* accepted); confirming and cancelling happen only when somebody asks.    *)
(* No task of app/worker/tasks.py and no scheduled job touches a booking.  *)
NextHold ==
    \/ \E w \in Workers, r \in RoomIds, ci \in GuestDates, co \in GuestDates,
          g \in GuestCounts : CreateGuestBookingCheck(w, r, ci, co, g)
    \/ \E w \in Workers : CreateGuestBookingCommit(w)
    \/ \E i \in BookingIds, st \in StatusOrUnset :
            UpdateBooking(i, st, UnsetDate, UnsetDate)
    \/ \E i \in BookingIds : CancelBooking(i)

RequestsComplete == \A w \in Workers : WF_vars(CreateGuestBookingCommit(w))

SpecHold == Init /\ [][NextHold]_vars /\ RequestsComplete

(* the ledger of room type 1 and the bookings of its rooms: seeding, the   *)
(* handlers that create a booking and the handlers that end its stay      *)
LedgerRoomIds == {0} \cup ActiveRoomsOfType(1)

NextLedger ==
    \/ SeedInventory
    \/ \E r \in LedgerRoomIds, ci \in Dates, co \in Dates : CreateBooking(r, ci, co)
    \/ \E r \in LedgerRoomIds, ci \in GuestDates, co \in GuestDates, g \in GuestCounts :
            CreateGuestBooking(r, ci, co, g)
    \/ \E i \in BookingIds : CancelBooking(i)
    \/ \E i \in BookingIds : CheckInGuest(i)
    \/ \E i \in BookingIds : CheckOutGuest(i)

SpecLedger == Init /\ [][NextLedger]_vars

(* ---- the quote as a function of the ledger: Init draws ledger and request ---- *)
ValidRanges == {dc \in Dates \X Dates : dc[1] < dc[2]}

WellFormedRows ==
    {NoRow} \cup
    {[present |-> TRUE, total_rooms |-> t, booked_rooms |-> b, closed_for_sale |-> c] :
        t \in 0..MaxTotalRooms, b \in 0..MaxTotalRooms, c \in BOOLEAN}

(* rows as the data model intends them: booked_rooms <= total_rooms *)
ConsistentRows == {row \in WellFormedRows : row.booked_rooms <= row.total_rooms}

(* ledgers with rows for room type 1 only; the other room types have none *)
LedgersOver(rows) ==
    {[rt \in RoomTypes |-> IF rt = 1 THEN days ELSE [d \in Nights |-> NoRow]] :
        days \in [Nights -> rows]}

(* one override, on day 1 of rate plan 1 *)
SamplePrices ==
    [rp \in RatePlans |-> [d \in Nights |->
        IF rp = 1 /\ d = 1 THEN OverridePrice ELSE NoPrice]]

(* (property_id, room_type_id, rate_plan_id) that belong together, and not *)
MatchingIds == {<<1, 1, 1>>, <<1, 2, 2>>}
MismatchedIds == {<<0, 1, 1>>, <<2, 1, 1>>, <<1, 0, 1>>, <<1, 1, 0>>, <<1, 1, 2>>}
NumRoomsInputs == 0..(MaxTotalRooms + 1)

QuoteRequests ==
    {QuoteRequest(ids[1], ids[2], ids[3], ci, co, n) :
        ids \in MatchingIds, ci \in Dates, co \in Dates, n \in NumRoomsInputs}
    \cup {QuoteRequest(ids[1], ids[2], ids[3], dc[1], dc[2], 1) :
                ids \in MismatchedIds, dc \in {<<0, 1>>, <<1, 1>>}}

InitQuoteOver(rows) ==
    /\ bookings = << >>
    /\ inflight = [w \in Workers |-> Idle]
    /\ inventory \in LedgersOver(rows)
    /\ daily_price = SamplePrices
    /\ quote_req \in {<<q>> : q \in QuoteRequests}
    /\ quote_resp = NoResp
    /\ probe_req = NoRequest
    /\ probe = NoResp
    /\ NoRoomTraffic

InitQuote == InitQuoteOver(ConsistentRows)
InitQuoteAny == InitQuoteOver(WellFormedRows)

NextQuote == QuoteAvailability

SpecQuote == InitQuote /\ [][NextQuote]_vars
SpecQuoteAny == InitQuoteAny /\ [][NextQuote]_vars

(* ---- the quote as a function of the price table: Init draws the ledger, ---- *)
(* ---- the overrides, the bookings table and the request                  ---- *)
(* a ledger with t rooms of every room type open on every night *)
OpenLedger(t) ==
    [rt \in RoomTypes |-> [d \in Nights |->
        [present |-> TRUE, total_rooms |-> t, booked_rooms |-> 0,
         closed_for_sale |-> FALSE]]]

(* nothing seeded, or enough rooms for every num_rooms a request can ask *)
PriceLedgers == {EmptyLedger, OpenLedger(MaxTotalRooms + 1)}

(* every way of overriding the price of some nights of some rate plans *)
PriceTables == [RatePlans -> [Nights -> {NoPrice, OverridePrice}]]

SampleBookings == {<< >>, <<Booking(1, 0, 1, "CONFIRMED")>>}

InitPrice ==
    /\ bookings \in SampleBookings
    /\ inflight = [w \in Workers |-> Idle]
    /\ inventory \in PriceLedgers
    /\ daily_price \in PriceTables
    /\ quote_req \in {<<q>> : q \in QuoteRequests}
    /\ quote_resp = NoResp
    /\ probe_req = NoRequest
    /\ probe = NoResp
    /\ NoRoomTraffic

SpecPrice == InitPrice /\ [][NextQuote]_vars

(* ---- the Hold Expiry Sweeper and the ledger's release, as the design   ---- *)
(* ---- describes them: no such job and no release exist in the sources   ---- *)
(* the rooms of room type rt that the bookings of bks hold on night d *)
rooms_held(bks, rt, d) ==
    Cardinality({i \in DOMAIN bks :
        /\ RoomTypeOf(bks[i].room_id) = rt
        /\ bks[i].status \in {"PENDING", "HOLD", "CONFIRMED", "COMPLETED"}
        /\ bks[i].check_in <= d /\ d < bks[i].check_out})

(* the sweeper without its status filter: everything due is expired and    *)
(* released again                                                          *)
sweeper_finds_any_status(bks, due) ==
    {i \in DOMAIN bks : i \in due}

(* the bookings the sweeper finds: HOLD or PENDING, among those whose      *)
(* hold_until lies before now (due)                                        *)
sweeper_finds(bks, due) ==
    {i \in DOMAIN bks : i \in due /\ bks[i].status \in {"HOLD", "PENDING"}}

(* Inventory Ledger.release: decrement, clamped at 0 *)
release(row, count) ==
    [row EXCEPT !.booked_rooms = IF @ - count < 0 THEN 0 ELSE @ - count]

(* one run of the sweeper: every booking found goes to EXPIRED and its     *)
(* date range is released                                                  *)
HoldExpirySweeper(due) ==
    LET found == sweeper_finds(bookings, due) IN
    /\ found # {}
    /\ bookings' = [i \in DOMAIN bookings |->
                        IF i \in found THEN [bookings[i] EXCEPT !.status = "EXPIRED"]
                        ELSE bookings[i]]
    /\ inventory' = [rt \in RoomTypes |-> [d \in Nights |->
            IF inventory[rt][d].present
            THEN release(inventory[rt][d],
                    Cardinality({i \in found :
                        /\ RoomTypeOf(bookings[i].room_id) = rt
                        /\ bookings[i].check_in <= d /\ d < bookings[i].check_out}))
            ELSE inventory[rt][d]]]
    /\ UNCHANGED <<inflight, daily_price, quoteVars, probeVars, restVars>>

(* the bookings of the rooms of room type 1 before any sweep *)
UnsweptBookings ==
    {Booking(r, dc[1], dc[2], st) :
        r \in ActiveRoomsOfType(1), dc \in ValidRanges,
        st \in {"PENDING", "HOLD", "CONFIRMED"}}

UnsweptTables == UNION {[1..n -> UnsweptBookings] : n \in 1..MaxBookings}

(* the ledger that counts what the bookings of bks hold *)
HeldLedger(bks) ==
    [rt \in RoomTypes |-> [d \in Nights |->
        [present |-> TRUE, total_rooms |-> MaxBookings,
         booked_rooms |-> rooms_held(bks, rt, d), closed_for_sale |-> FALSE]]]

InitSweep ==
    /\ bookings \in UnsweptTables
    /\ inflight = [w \in Workers |-> Idle]
    /\ inventory = HeldLedger(bookings)
    /\ daily_price = NoOverrides
    /\ quote_req = NoRequest
    /\ quote_resp = NoResp
    /\ probe_req = NoRequest
    /\ probe = NoResp
    /\ NoRoomTraffic

NextSweep == \E due \in SUBSET BookingIds : HoldExpirySweeper(due)

SpecSweep == InitSweep /\ [][NextSweep]_vars

(* ---- the availability checks as functions of the bookings table ---- *)
StoredBookings ==
    {Booking(r, dc[1], dc[2], st) : r \in Rooms, dc \in ValidRanges, st \in BookingStatus}

BookingTables ==
    UNION {[1..n -> StoredBookings] : n \in 1..MaxBookings}

InitOverlap ==
    /\ bookings \in BookingTables
    /\ inflight = [w \in Workers |-> Idle]
    /\ inventory = EmptyLedger
    /\ daily_price = NoOverrides
    /\ quote_req = NoRequest
    /\ quote_resp = NoResp
    /\ probe_req \in {<<Request("probe", r, dc[1], dc[2])>> : r \in Rooms, dc \in ValidRanges}
    /\ probe = NoResp
    /\ NoRoomTraffic

NextOverlap == ProbeRoomAvailability

SpecOverlap == InitOverlap /\ [][NextOverlap]_vars

(* ============================== properties ============================== *)
HoldingStatuses == {"PENDING", "HOLD", "CONFIRMED", "COMPLETED"}
ReleasedStatuses == {"CANCELLED", "EXPIRED", "NO_SHOW"}

(* night d lies in the half-open range [check_in, check_out) of booking b *)
Covers(b, d) == b.check_in <= d /\ d < b.check_out

(* two ranges share a night *)
RangesOverlap(a_in, a_out, b_in, b_out) ==
    \E d \in Nights : a_in <= d /\ d < a_out /\ b_in <= d /\ b_out > d

(* the bookings of room type rt, with a status in sts, that cover night d *)
BookedOn(rt, d, sts) ==
    {i \in DOMAIN bookings :
        /\ RoomTypeOf(bookings[i].room_id) = rt
        /\ bookings[i].status \in sts
        /\ Covers(bookings[i], d)}

AllIdle == \A w \in Workers : inflight[w] = Idle

(* C1: for any interleaving of concurrent create_booking commits against   *)
(* the same (room_type_id, date), the rooms of the commits that succeeded  *)
(* (each persists one CONFIRMED booking of one room) never exceed that     *)
(* day's total_rooms.                                                      *)
C1_NoOversell ==
    \A rt \in RoomTypes, d \in Nights :
        inventory[rt][d].present =>
            Cardinality(BookedOn(rt, d, {"CONFIRMED"})) <= inventory[rt][d].total_rooms

(* C2: no two bookings of the same room that are both PENDING, HOLD or     *)
(* CONFIRMED have overlapping half-open ranges [check_in, check_out).      *)
C2_NoDoubleBooking ==
    \A i \in DOMAIN bookings, j \in DOMAIN bookings :
        ( /\ i # j
          /\ bookings[i].room_id = bookings[j].room_id
          /\ bookings[i].status \in {"PENDING", "HOLD", "CONFIRMED"}
          /\ bookings[j].status \in {"PENDING", "HOLD", "CONFIRMED"} )
        => ~ RangesOverlap(bookings[i].check_in, bookings[i].check_out,
                           bookings[j].check_in, bookings[j].check_out)

(* C3: every Inventory row satisfies 0 <= booked_rooms <= total_rooms in   *)
(* every reachable state.                                                  *)
C3_LedgerBounds ==
    \A rt \in RoomTypes, d \in Nights :
        inventory[rt][d].present =>
            /\ 0 <= inventory[rt][d].booked_rooms
            /\ inventory[rt][d].booked_rooms <= inventory[rt][d].total_rooms

(* C3 witness: a seeded day of a room type on which a booking has been     *)
(* created and another one cancelled                                       *)
C3_Witness ==
    \E rt \in RoomTypes, d \in Nights :
        /\ inventory[rt][d].present
        /\ inventory[rt][d].total_rooms > 0
        /\ BookedOn(rt, d, {"CONFIRMED"}) # {}
        /\ BookedOn(rt, d, {"CANCELLED"}) # {}

(* C4: for every (room_type_id, date) the stored booked_rooms equals the   *)
(* number of rooms of the bookings currently in an inventory-holding       *)
(* status whose range covers that date.                                    *)
C4_BookedRoomsTracksBookings ==
    \A rt \in RoomTypes, d \in Nights :
        inventory[rt][d].present =>
            inventory[rt][d].booked_rooms = Cardinality(BookedOn(rt, d, HoldingStatuses))

(* C5: of the creation requests that asked for the last free unit of the   *)
(* same room and night, exactly one is committed: once every request has   *)
(* finished, no room has two committed bookings on one night.              *)
C5_LastRoomTakenOnce ==
    AllIdle =>
        \A r \in Rooms, d \in Nights :
            Cardinality({i \in DOMAIN bookings :
                            /\ bookings[i].room_id = r
                            /\ bookings[i].status \in HoldingStatuses
                            /\ Covers(bookings[i], d)}) <= 1

(* the bookings of the probed room that the spec counts as blocking and    *)
(* whose range intersects the probed range as half-open intervals          *)
HalfOpenBlockers(sts) ==
    {i \in DOMAIN bookings :
        /\ bookings[i].room_id = probe_req[1].room_id
        /\ bookings[i].status \in sts
        /\ bookings[i].check_in < probe_req[1].check_out
        /\ bookings[i].check_out > probe_req[1].check_in}

(* C6: the room-free check is half-open interval intersection: over a      *)
(* table of CONFIRMED bookings the room is reported free iff no booking    *)
(* [b_in, b_out) of the room has b_in < out and b_out > in, so a request   *)
(* adjacent to an existing booking is free.                                *)
C6_HalfOpenOverlap ==
    ( /\ probe # NoResp
      /\ \A i \in DOMAIN bookings : bookings[i].status = "CONFIRMED" )
    => /\ probe[1].room_available = (HalfOpenBlockers({"CONFIRMED"}) = {})
       /\ probe[1].guest_free = (HalfOpenBlockers({"CONFIRMED"}) = {})

(* C7: the room-free check returns false whenever an overlapping booking   *)
(* of the room is PENDING, HOLD, CONFIRMED or COMPLETED, and bookings that *)
(* are CANCELLED, EXPIRED or NO_SHOW never make it return false.           *)
C7_BlockingStatuses ==
    probe # NoResp =>
        /\ HalfOpenBlockers(HoldingStatuses) # {} =>
                ~ probe[1].room_available /\ ~ probe[1].guest_free
        /\ (\A i \in DOMAIN bookings : bookings[i].status \in ReleasedStatuses) =>
                probe[1].room_available /\ probe[1].guest_free

(* the availability of one night as the ledger contract defines it *)
NightAvailability(rt, d) ==
    IF ~ inventory[rt][d].present THEN 0
    ELSE IF inventory[rt][d].closed_for_sale THEN 0
    ELSE inventory[rt][d].total_rooms - inventory[rt][d].booked_rooms

NightsOf(q) == {d \in Nights : q.check_in <= d /\ d < q.check_out}

MinOverNightsOf(q) ==
    CHOOSE m \in {NightAvailability(q.room_type_id, d) : d \in NightsOf(q)} :
        \A d \in NightsOf(q) : m <= NightAvailability(q.room_type_id, d)

ValidQuote(q) ==
    /\ q.property_id \in PropertyIds
    /\ q.room_type_id \in RoomTypes
    /\ RoomTypeProperty(q.room_type_id) = q.property_id
    /\ q.rate_plan_id \in RatePlans
    /\ RatePlanProperty(q.rate_plan_id) = q.property_id
    /\ RatePlanRoomType(q.rate_plan_id) = q.room_type_id
    /\ q.check_in < q.check_out

(* the available_rooms a 200 response was computed from *)
AvailableRoomsOf(q, r) ==
    IF r.available THEN r.remaining_rooms + q.num_rooms ELSE r.remaining_rooms

(* C8: for a valid quote request min_available is the minimum of the       *)
(* per-night availability over [check_in, check_out); below num_rooms the  *)
(* answer is available=false, remaining_rooms=min_available, total_price=0 *)
(* and otherwise available=true, remaining_rooms=min_available-num_rooms.  *)
C8_QuoteMinAvailable ==
    (quote_resp # NoResp /\ ValidQuote(quote_req[1])) =>
        LET q == quote_req[1]
            r == quote_resp[1]
            m == MinOverNightsOf(q)
        IN  /\ r.code = 200
            /\ m < q.num_rooms =>
                  r.available = FALSE /\ r.remaining_rooms = m /\ r.total_price = 0
            /\ m >= q.num_rooms =>
                  r.available = TRUE /\ r.remaining_rooms = m - q.num_rooms

(* C8 witness: a stay of two nights whose nights differ in availability,   *)
(* refused with the smaller of the two as remaining_rooms                  *)
C8_Witness ==
    /\ quote_resp # NoResp
    /\ ValidQuote(quote_req[1])
    /\ LET q == quote_req[1]
           r == quote_resp[1]
       IN  /\ q.check_out - q.check_in >= 2
           /\ NightAvailability(q.room_type_id, q.check_in) >
                NightAvailability(q.room_type_id, q.check_in + 1)
           /\ q.num_rooms = NightAvailability(q.room_type_id, q.check_in)
           /\ r.available = FALSE
           /\ r.remaining_rooms = NightAvailability(q.room_type_id, q.check_in + 1)

(* C9: the availability the quote reads for one (room_type_id, date) is 0  *)
(* without an Inventory row, 0 for a closed_for_sale row whatever its      *)
(* counts, and total_rooms - booked_rooms otherwise; a closed row anywhere *)
(* in the range makes the availability of the whole range 0.               *)
C9_NightAvailability ==
    (quote_resp # NoResp /\ ValidQuote(quote_req[1])) =>
        LET q == quote_req[1]
            r == quote_resp[1]
        IN  /\ q.check_out = q.check_in + 1 =>
                  AvailableRoomsOf(q, r) = NightAvailability(q.room_type_id, q.check_in)
            /\ (\E d \in NightsOf(q) :
                    /\ inventory[q.room_type_id][d].present
                    /\ inventory[q.room_type_id][d].closed_for_sale) =>
                  AvailableRoomsOf(q, r) = 0

(* C9 witness: a one-night quote over a closed row that still has a free   *)
(* room by its counts, answered from availability 0                        *)
C9_Witness ==
    /\ quote_resp # NoResp
    /\ ValidQuote(quote_req[1])
    /\ LET q == quote_req[1]
           row == inventory[q.room_type_id][q.check_in]
       IN  /\ q.check_out = q.check_in + 1
           /\ row.present /\ row.closed_for_sale
           /\ row.total_rooms - row.booked_rooms > 0
           /\ q.num_rooms = 1
           /\ quote_resp[1].available = FALSE
           /\ quote_resp[1].remaining_rooms = 0

(* C10: whatever the ledger holds, also a row with booked_rooms above      *)
(* total_rooms, the remaining_rooms a quote returns is never negative.     *)
C10_RemainingNeverNegative ==
    (quote_resp # NoResp /\ quote_resp[1].code = 200) =>
        quote_resp[1].remaining_rooms >= 0

(* the price of one night as the pricing contract defines it *)
NightlyPrice(rp, d) ==
    IF daily_price[rp][d] # NoPrice THEN daily_price[rp][d] ELSE BasePrice

RECURSIVE SumOfNights(_, _, _)
SumOfNights(rp, nights, num_rooms) ==
    IF nights = {} THEN 0
    ELSE LET d == CHOOSE x \in nights : TRUE
         IN  NightlyPrice(rp, d) * num_rooms + SumOfNights(rp, nights \ {d}, num_rooms)

(* C11: for an available quote total_price is the sum over every date d in *)
(* [check_in, check_out), check_out excluded, of nightly(d) * num_rooms,   *)
(* with nightly(d) the DailyPrice of (rate_plan_id, d) if there is one and *)
(* the base_price of the rate plan otherwise.                              *)
C11_TotalPrice ==
    (quote_resp # NoResp /\ quote_resp[1].code = 200 /\ quote_resp[1].available) =>
        quote_resp[1].total_price =
            SumOfNights(quote_req[1].rate_plan_id, NightsOf(quote_req[1]),
                        quote_req[1].num_rooms)

(* C11 witness: two rooms for two nights, the first at base_price and the  *)
(* second overridden, quoted at 2 * (base_price + override)                *)
C11_Witness ==
    /\ quote_resp # NoResp
    /\ quote_resp[1].code = 200
    /\ quote_resp[1].available
    /\ LET q == quote_req[1] IN
        /\ q.check_out = q.check_in + 2
        /\ q.num_rooms = 2
        /\ daily_price[q.rate_plan_id][q.check_in] = NoPrice
        /\ daily_price[q.rate_plan_id][q.check_in + 1] = OverridePrice
        /\ quote_resp[1].total_price = 2 * (BasePrice + OverridePrice)

(* C12: quote is read-only: a quote call, whatever its arguments and its   *)
(* outcome (available, unavailable or error), leaves every Inventory row,  *)
(* every DailyPrice and every Booking unchanged.                           *)
C12_QuoteReadOnly ==
    [][quote_resp' # quote_resp => UNCHANGED <<inventory, daily_price, bookings>>]_vars

(* C12 witness: an available quote answered over a seeded ledger, a price  *)
(* override and a stored booking                                           *)
C12_Witness ==
    /\ quote_resp # NoResp
    /\ quote_resp[1].code = 200
    /\ quote_resp[1].available
    /\ quote_req[1].num_rooms > 0
    /\ bookings # << >>
    /\ inventory[quote_req[1].room_type_id][quote_req[1].check_in].present
    /\ daily_price[quote_req[1].rate_plan_id][quote_req[1].check_in] # NoPrice

(* the room type belongs to the property, and the rate plan to both *)
IdsBelongTogether(q) ==
    /\ q.property_id \in PropertyIds
    /\ q.room_type_id \in RoomTypes
    /\ RoomTypeProperty(q.room_type_id) = q.property_id
    /\ q.rate_plan_id \in RatePlans
    /\ RatePlanProperty(q.rate_plan_id) = q.property_id
    /\ RatePlanRoomType(q.rate_plan_id) = q.room_type_id

(* C13: a quote fails with NotFound (404) when the room type does not      *)
(* belong to the property or the rate plan does not belong to both, and    *)
(* with InvalidDateRange (400) when check_out <= check_in; in neither case *)
(* is an availability / price result (200) returned.                       *)
C13_QuoteValidation ==
    quote_resp # NoResp =>
        LET q == quote_req[1]
            r == quote_resp[1]
        IN  /\ ~ IdsBelongTogether(q) => r.code = 404
            /\ (IdsBelongTogether(q) /\ q.check_out <= q.check_in) => r.code = 400
            /\ (~ IdsBelongTogether(q) \/ q.check_out <= q.check_in) =>
                    /\ r.code # 200
                    /\ r.available = FALSE /\ r.total_price = 0

(* C13 witness: the rate plan of another room type of the same property,   *)
(* asked for a stay the ledger could sell, answered 404                    *)
C13_Witness ==
    /\ quote_resp # NoResp
    /\ LET q == quote_req[1] IN
        /\ q.property_id \in PropertyIds
        /\ q.room_type_id \in RoomTypes
        /\ q.rate_plan_id \in RatePlans
        /\ RatePlanRoomType(q.rate_plan_id) # q.room_type_id
        /\ q.check_in < q.check_out
        /\ inventory[q.room_type_id][q.check_in].present
        /\ quote_resp[1].code = 404

(* C14: a quote request with check_out <= check_in is rejected as          *)
(* InvalidDateRange (400) before any database read or write is performed.  *)
C14_RejectedBeforeDbAccess ==
    (quote_resp # NoResp /\ quote_req[1].check_out <= quote_req[1].check_in) =>
        /\ quote_resp[1].code = 400
        /\ quote_resp[1].db_reads = 0

TerminalStatuses == {"CANCELLED", "EXPIRED", "COMPLETED", "NO_SHOW"}

(* C15: once a booking is CANCELLED, EXPIRED, COMPLETED or NO_SHOW, no     *)
(* operation ever changes its status again.                                *)
C15_TerminalStatusesFinal ==
    [][\A i \in DOMAIN bookings :
            bookings[i].status \in TerminalStatuses =>
                bookings'[i].status = bookings[i].status]_vars

(* the status changes of the booking life cycle *)
PermittedTransitions ==
    {<<"PENDING", "CONFIRMED">>, <<"CONFIRMED", "COMPLETED">>,
     <<"PENDING", "CANCELLED">>, <<"PENDING", "EXPIRED">>, <<"HOLD", "EXPIRED">>,
     <<"CONFIRMED", "CANCELLED">>, <<"CONFIRMED", "NO_SHOW">>}

(* C16: every status change a booking undergoes is one of PENDING->        *)
(* CONFIRMED, CONFIRMED->COMPLETED, PENDING->CANCELLED, PENDING->EXPIRED,  *)
(* HOLD->EXPIRED, CONFIRMED->CANCELLED, CONFIRMED->NO_SHOW.                *)
C16_OnlyPermittedTransitions ==
    [][\A i \in DOMAIN bookings :
            bookings'[i].status # bookings[i].status =>
                <<bookings[i].status, bookings'[i].status>> \in PermittedTransitions]_vars

(* the stored bookings of a room that take night d in the eyes of          *)
(* create_booking                                                          *)
TakenBy(room_id, d) ==
    {i \in DOMAIN bookings :
        /\ bookings[i].room_id = room_id
        /\ bookings[i].status \in {"CONFIRMED", "COMPLETED"}
        /\ Covers(bookings[i], d)}

C18_CheckHoldsAtWrite ==
    [][Len(bookings') > Len(bookings) =>
          LET b == bookings'[Len(bookings')] IN
          IF b.status = "CONFIRMED"
          THEN room_available(bookings, b.room_id, b.check_in, b.check_out)
          ELSE conflicting_bookings(bookings, b.room_id, b.check_in, b.check_out) = {}]_vars

(* booking i goes to CANCELLED in this step *)
Cancelled(i) ==
    bookings[i].status # "CANCELLED" /\ bookings'[i].status = "CANCELLED"

(* C19: cancelling a booking sets its status to CANCELLED, releases the    *)
(* inventory it held on every night of its range (one room less in         *)
(* booked_rooms of each seeded night) and records a cancellation reason on *)
(* the booking.                                                            *)
C19_CancelReleasesAndRecords ==
    [][\A i \in DOMAIN bookings :
            (Cancelled(i) /\ bookings[i].status \in HoldingStatuses) =>
                /\ bookings'[i].cancellation_reason # None
                /\ \A d \in Nights :
                      LET rt == RoomTypeOf(bookings[i].room_id) IN
                      (Covers(bookings[i], d) /\ inventory[rt][d].present) =>
                          inventory'[rt][d].booked_rooms =
                              inventory[rt][d].booked_rooms - 1]_vars

(* C20: every booking in HOLD or PENDING whose hold window has passed is   *)
(* eventually moved out of HOLD / PENDING (to EXPIRED, by the periodic     *)
(* sweeper): no unconfirmed booking stays in HOLD / PENDING forever.       *)
C20_UnconfirmedEventuallyExpires ==
    \A i \in BookingIds :
        [](( /\ i \in DOMAIN bookings
             /\ bookings[i].status \in {"PENDING", "HOLD"} )
           => <>( /\ i \in DOMAIN bookings
                  /\ bookings[i].status \notin {"PENDING", "HOLD"} ))

(* C21: running the Hold Expiry Sweeper again on a booking it already      *)
(* expired is a no-op: an EXPIRED booking is never changed by a run, and   *)
(* every run releases of each night exactly the rooms of the bookings it   *)
(* expires in that run, so nothing is released twice.                      *)
C21_SweeperIdempotent ==
    [][/\ \A i \in DOMAIN bookings :
              bookings[i].status = "EXPIRED" => bookings'[i] = bookings[i]
       /\ \A rt \in RoomTypes, d \in Nights :
              inventory'[rt][d].booked_rooms = rooms_held(bookings', rt, d)]_vars

(* C21 witness: one booking expired and released by a run while another    *)
(* booking still holds the same night, which stays counted once            *)
C21_Witness ==
    \E i \in DOMAIN bookings, j \in DOMAIN bookings, d \in Nights :
        /\ bookings[i].status = "EXPIRED"
        /\ bookings[j].status \in {"PENDING", "HOLD", "CONFIRMED"}
        /\ RoomTypeOf(bookings[i].room_id) = RoomTypeOf(bookings[j].room_id)
        /\ Covers(bookings[i], d) /\ Covers(bookings[j], d)
        /\ inventory[RoomTypeOf(bookings[j].room_id)][d].booked_rooms = 1

(* another booking of the same room, in a blocking status, shares a night  *)
(* with the range [check_in, check_out)                                    *)
OthersBlock(i, check_in, check_out) ==
    \E j \in DOMAIN bookings :
        /\ j # i
        /\ bookings[j].room_id = bookings[i].room_id
        /\ bookings[j].status \in HoldingStatuses
        /\ bookings[j].check_in < check_out
        /\ bookings[j].check_out > check_in

(* C22: a date change releases the old range and commits the new one in    *)
(* one step: the current range of a booking never blocks its own move, so  *)
(* moving a CONFIRMED booking to a range that no other blocking booking of *)
(* the room intersects is accepted.                                        *)
C22_OwnRangeNeverBlocksMove ==
    \A i \in DOMAIN bookings, dc \in ValidRanges :
        ( /\ bookings[i].status = "CONFIRMED"
          /\ bookings[i].check_in < bookings[i].check_out
          /\ dc # <<bookings[i].check_in, bookings[i].check_out>>
          /\ ~ OthersBlock(i, dc[1], dc[2]) )
        => ENABLED UpdateBooking(i, Unset, dc[1], dc[2])

(* ------------------ room prices against stored totals ------------------- *)
NextSnapshot ==
    \/ \E ci \in Dates, co \in Dates : CreateBooking(SnapshotRoom, ci, co)
    \/ \E ci \in Dates, co \in Dates : CreateGuestBooking(SnapshotRoom, ci, co, 1)
    \/ \E i \in BookingIds, dc \in ValidRanges :
            UpdateBooking(i, Unset, dc[1], dc[2])
    \/ \E data \in RoomUpdates : UpdateRoom(SnapshotRoom, data)

SpecSnapshot == Init /\ [][NextSnapshot]_vars

(* C23: a step that changes a room's row (its price_per_night included) or *)
(* the daily price overrides leaves the bookings table as it was: no       *)
(* booking is added, dropped or re-priced, so every stored total stays the *)
(* amount computed when the booking was committed.                         *)
C23_TotalsSurvivePriceChanges ==
    [][(rooms' # rooms \/ daily_price' # daily_price)
        => /\ DOMAIN bookings' = DOMAIN bookings
           /\ \A i \in DOMAIN bookings :
                 bookings'[i].total_amount = bookings[i].total_amount]_vars

(* a booking whose stored total is no longer what its room costs today *)
C23_Witness ==
    \E i \in DOMAIN bookings :
        /\ bookings[i].check_in < bookings[i].check_out
        /\ bookings[i].total_amount =
               (bookings[i].check_out - bookings[i].check_in) * PricePerNight
        /\ rooms[bookings[i].room_id].price_per_night # PricePerNight

(* C24: every row of the bookings table has check_in < check_out, whatever *)
(* create_booking, create_guest_booking, update_booking and the staff      *)
(* modify_booking were called with.                                        *)
C24_StaysHaveNights ==
    \A i \in DOMAIN bookings : bookings[i].check_in < bookings[i].check_out

(* C25: a PATCH that update_booking answers with 400 leaves the booking's  *)
(* status, dates and total as they were and queues no booking-approved     *)
(* e-mail, also when the payload asked for PENDING -> CONFIRMED.           *)
C25_RejectedUpdateLeavesNoTrace ==
    [][\A i \in BookingIds, st \in StatusOrUnset, dc \in DateChange :
          UpdateBookingRejected(i, st, dc[1], dc[2])
              => /\ bookings' = bookings
                 /\ outbox' = outbox]_vars

(* C26: the three availability checks agree: for one room, one range and   *)
(* one bookings table, check_room_availability, the conflict query of      *)
(* create_guest_booking and room_available all say free or all say blocked *)
C26_ChecksAgree ==
    probe # NoResp =>
        /\ probe[1].preview_free = probe[1].guest_free
        /\ probe[1].preview_free = probe[1].room_available

(* ----------------------- reservations of one room ----------------------- *)
NextReserve ==
    \/ SeedInventory
    \/ \E r \in RoomIds, ci \in Dates, co \in Dates : CreateBooking(r, ci, co)
    \/ \E r \in RoomIds, ci \in GuestDates, co \in GuestDates :
            ReserveRoomInventory(r, ci, co)

SpecReserve == Init /\ [][NextReserve]_vars

(* the room is on sale, the range is valid, every night of it has an       *)
(* inventory row and no booking of the room touches it                     *)
Reservable(room_id, check_in, check_out) ==
    /\ Today <= check_in
    /\ check_in < check_out
    /\ RoomOnSale(room_id)
    /\ \A d \in check_in..(check_out - 1) :
          d \in Nights /\ inventory[RoomTypeOf(room_id)][d].present
    /\ \A i \in DOMAIN bookings : bookings[i].room_id # room_id

(* C27: reserve_room_inventory creates a temporary hold: a reserve of a    *)
(* reservable room and range is answered "reserved" with an expires_at 15  *)
(* minutes after the call (and from then on blocks overlapping reserves).  *)
C27_ReserveHolds ==
    reserve_resp # NoResp =>
        LET r == reserve_resp[1]
        IN  Reservable(r.room_id, r.check_in, r.check_out)
                => /\ r.status_code = 200
                   /\ r.expires_after = HoldMinutes

(* ------------------------ the room list and its cache ------------------- *)
NoRoomRow == Room(FALSE, FALSE, PricePerNight)
RoomTables == [Rooms -> {NoRoomRow, Room(TRUE, TRUE, PricePerNight)}]

InitRooms ==
    /\ bookings = << >>
    /\ inflight = [w \in Workers |-> Idle]
    /\ inventory = EmptyLedger
    /\ daily_price = NoOverrides
    /\ quote_req = NoRequest
    /\ quote_resp = NoResp
    /\ probe_req = NoRequest
    /\ probe = NoResp
    /\ rooms \in RoomTables
    /\ cache = None
    /\ listing = None
    /\ list_resp = NoResp
    /\ outbox = {}
    /\ reserve_resp = NoResp

RoomWrite ==
    \/ \E r \in Rooms, p \in RoomPrices : CreateRoom(r, p)
    \/ \E r \in Rooms, data \in RoomUpdates : UpdateRoom(r, data)
    \/ \E r \in Rooms : DeleteRoom(r)

(* the room handlers, each served alone *)
NextRooms ==
    \/ RoomWrite
    \/ \E f \in Filters : ListRooms(f)
    \/ CacheExpires

SpecRooms == InitRooms /\ [][NextRooms]_vars

(* unfiltered list_rooms calls running against the room writes *)
NextCache ==
    \/ RoomWrite
    \/ ListRoomsRead(NoFilter)
    \/ ListRoomsStore
    \/ CacheExpires

SpecCache == InitRooms /\ [][NextCache]_vars

(* C28: a list_rooms request that carries a filter is answered with        *)
(* exactly the active rooms that match it and leaves the "rooms:all" entry *)
(* alone: it neither reads nor writes the cache.                           *)
C28_FilteredRequestsBypassCache ==
    [][(list_resp' # list_resp /\ list_resp'[1].filter # NoFilter)
        => /\ list_resp'[1].status_code = 200
           /\ list_resp'[1].rooms = query_rooms(rooms, list_resp'[1].filter)
           /\ cache' = cache]_vars

(* C29: once a room write has completed, the cache never holds a list from *)
(* before it: with no list_rooms call in flight, whatever is stored under  *)
(* "rooms:all" is the current list of active rooms.                        *)
C29_CacheNeverStale ==
    (listing = None /\ cache # None) => cache[1] = query_rooms(rooms, NoFilter)

(* C30: a quote says available only for at least one room and only when    *)
(* every night of [check_in, check_out) has an inventory row that is open  *)
(* for sale with total_rooms - booked_rooms >= num_rooms; the total price  *)
(* is never negative.                                                      *)
C30_AvailableNeedsRoomsAndRows ==
    (quote_resp # NoResp /\ quote_resp[1].code = 200) =>
        LET q == quote_req[1]
            r == quote_resp[1]
        IN  /\ r.total_price >= 0
            /\ r.available =>
                  /\ q.num_rooms >= 1
                  /\ \A d \in q.check_in..(q.check_out - 1) :
                        /\ d \in Nights
                        /\ inventory[q.room_type_id][d].present
                        /\ ~ inventory[q.room_type_id][d].closed_for_sale
                        /\ inventory[q.room_type_id][d].total_rooms
                              - inventory[q.room_type_id][d].booked_rooms >= q.num_rooms
====
